---- MODULE Spec2Model ----
(***************************************************************************)
(* Unique Ring Signatures (package urs, urs.go).                           *)
(*                                                                         *)
(* The library calls GenerateKey, NewPublicKeyRing, Add, Sign and Verify   *)
(* are modelled as actions over a caller's keys, ring, message buffer and  *)
(* signature.  The elliptic curve is a short Weierstrass curve             *)
(* y^2 = x^3 - 3x + B over F_P of prime order N < P with cofactor 1, the   *)
(* shape of the NIST curve the tests use, scaled down so that the group    *)
(* can be enumerated.  crypto/sha256 is a fixed function from byte strings *)
(* to a fixed width digest.  big.Int values are integers, byte slices are  *)
(* sequences of 0..255, and a *big.Int that is nil is the empty sequence   *)
(* where one that is set is a one element sequence.                        *)
(***************************************************************************)
EXTENDS Integers, Sequences, FiniteSets, TLC

VARIABLES
    keys,    \* the private keys GenerateKey has returned, in call order
    ring,    \* the caller's *PublicKeyRing: [Ring |-> slice, cap |-> capacity]
    store,   \* backing array of the caller's message buffer
    mlen,    \* length of the message slice m = store[0:mlen], cap(m) = Len(store)
    sig,     \* the *RingSign the caller holds (nil when isNil)
    signedBy,\* index in keys of the signer whose Sign call returned sig as
             \* it is now, 0 when sig is nil or was altered since
    ret      \* what the last call returned, and what it was given

vars == <<keys, ring, store, mlen, sig, signedBy, ret>>

-----------------------------------------------------------------------------
(* Bounds of the exploration *)

MaxKeys  == 2    \* GenerateKey calls
MaxRing  == 2    \* keys added to a ring
MaxCap   == 1    \* largest capacity passed to NewPublicKeyRing
MaxDraws == 3    \* scalar sized blocks a randomness reader holds
MaxSpare == 2    \* spare capacity behind the message slice

-----------------------------------------------------------------------------
(* The curve: elliptic.Curve as used through c.Params(), ScalarBaseMult,   *)
(* ScalarMult, Add and IsOnCurve.                                          *)

P  == 31         \* field prime
B  == 15         \* curve coefficient b (a = -3)
N  == 29         \* order of the base point, and of the group
Gx == 3          \* base point
Gy == 8

Infinity == <<0, 0>>

\* the inverses in F_P
InvTable == [a \in 1..(P - 1) |-> CHOOSE z \in 1..(P - 1) : (z * a) % P = 1]

InvP(a) == InvTable[a]

\* elliptic.Curve.IsOnCurve
IsOnCurve(x, y) ==
    /\ x >= 0 /\ x < P
    /\ y >= 0 /\ y < P
    /\ (y * y) % P = (x * x * x - 3 * x + B) % P

\* the group law on affine points, the point at infinity being (0, 0)
AddPoints(p1, p2) ==
    IF p1 = Infinity THEN p2
    ELSE IF p2 = Infinity THEN p1
    ELSE IF p1[1] = p2[1] /\ (p1[2] + p2[2]) % P = 0 THEN Infinity
    ELSE LET l == IF p1 = p2
                  THEN ((3 * p1[1] * p1[1] - 3) * InvP((2 * p1[2]) % P)) % P
                  ELSE ((p2[2] - p1[2]) * InvP((p2[1] - p1[1]) % P)) % P
             x == (l * l - p1[1] - p2[1]) % P
         IN  <<x, (l * (p1[1] - x) - p1[2]) % P>>

\* the points of the group
Points == {Infinity} \cup {pt \in (0..(P - 1)) \X (0..(P - 1)) : IsOnCurve(pt[1], pt[2])}

\* the group law, tabulated over the group
AddTable == [pr \in Points \X Points |-> AddPoints(pr[1], pr[2])]

\* elliptic.Curve.Add
PointAdd(p1, p2) == AddTable[<<p1, p2>>]

\* big.Int.Bytes: the absolute value, big-endian, no leading zero byte
RECURSIVE AbsBytes(_)
AbsBytes(n) == IF n = 0 THEN <<>> ELSE Append(AbsBytes(n \div 256), n % 256)

Bytes(n) == IF n < 0 THEN AbsBytes(0 - n) ELSE AbsBytes(n)

\* big.Int.SetBytes: big-endian unsigned integer
RECURSIVE SetBytes(_)
SetBytes(b) ==
    IF b = <<>> THEN 0
    ELSE 256 * SetBytes(SubSeq(b, 1, Len(b) - 1)) + b[Len(b)]

\* double and add over the integer k
RECURSIVE MulInt(_, _)
MulInt(pt, k) ==
    IF k = 0 THEN Infinity
    ELSE LET half == MulInt(pt, k \div 2)
             dbl  == PointAdd(half, half)
         IN  IF k % 2 = 1 THEN PointAdd(dbl, pt) ELSE dbl

\* elliptic.Curve.ScalarMult: k given as big-endian bytes
ScalarMult(x, y, k) == MulInt(<<x, y>>, SetBytes(k))

\* elliptic.Curve.ScalarBaseMult
ScalarBaseMult(k) == ScalarMult(Gx, Gy, k)

-----------------------------------------------------------------------------
(* crypto/sha256 as used by hashG and hashq: a digest of fixed width       *)

DigestMod == 256     \* one byte of digest

RECURSIVE Sha256Fold(_, _)
Sha256Fold(h, m) ==
    IF m = <<>> THEN h
    ELSE Sha256Fold(((h + Head(m) + 1) * 37 + 11) % DigestMod, Tail(m))

\* h := sha256.New(); h.Write(m); h.Sum(nil)
Sha256(m) == <<Sha256Fold(99, m)>>

hashG_NoWrite(m) == ScalarBaseMult(Sha256(<<>>))

\* hashG(curve, m)
hashG(m) == ScalarBaseMult(Sha256(m))

\* hashq
hashq(m) == Sha256(m)

-----------------------------------------------------------------------------
(* Keys and the ring *)

\* PublicKey{Curve, X, Y}: X and Y are *big.Int, ref stands for the two
\* addresses, which one GenerateKey call allocates together
PublicKeyOf(priv) == [ref |-> priv.ref, X |-> priv.X, Y |-> priv.Y]

\* R.Ring[j] == pub: struct comparison, which compares the pointers X and Y
KeyEq(a, b) == a.ref = b.ref

\* randFieldElement: one block of the reader, or the error of io.ReadFull
\* on a reader that has no full block left
randFieldElement_NoErr(rd) ==
    IF rd = <<>>
    THEN [err |-> FALSE, k |-> 1, rest |-> <<>>]
    ELSE [err |-> FALSE, k |-> (Head(rd) % (N - 1)) + 1, rest |-> Tail(rd)]

randFieldElement(rd) ==
    IF rd = <<>>
    THEN [err |-> TRUE, k |-> 0, rest |-> <<>>]
    ELSE [err |-> FALSE, k |-> (Head(rd) % (N - 1)) + 1, rest |-> Tail(rd)]

\* PublicKeyRing.Len
RingLen(r) == Len(r.Ring)

\* PublicKeyRing.Bytes
RECURSIVE RingBytes(_)
RingBytes(R) ==
    IF R = <<>> THEN <<>>
    ELSE Bytes(Head(R).X) \o Bytes(Head(R).Y) \o RingBytes(Tail(R))

AppendKey_DropWhenFull(r, pub) ==
    IF Len(r.Ring) < r.cap
    THEN [r EXCEPT !.Ring = Append(r.Ring, pub)]
    ELSE r

\* r.Ring = append(r.Ring, pub): in place while capacity lasts, else a
\* larger array that holds the old elements and pub
AppendKey(r, pub) ==
    IF Len(r.Ring) < r.cap
    THEN [r EXCEPT !.Ring = Append(r.Ring, pub)]
    ELSE [Ring |-> Append(r.Ring, pub),
          cap  |-> IF r.cap = 0 THEN 1 ELSE 2 * r.cap]

\* mR := append(m, rb...) seen from the caller's backing array: the bytes
\* are written behind m when they fit in cap(m), else into a new array
AppendInto(st, ml, rb) ==
    IF ml + Len(rb) <= Len(st)
    THEN [i \in 1..Len(st) |->
            IF i > ml /\ i <= ml + Len(rb) THEN rb[i - ml] ELSE st[i]]
    ELSE st

-----------------------------------------------------------------------------
(* Sign *)

NilSig == [isNil |-> TRUE, Hsx |-> 0, Hsy |-> 0, C |-> <<>>, T |-> <<>>]

\* make([]*big.Int, s, s): s nil pointers
NilSlice(s) == [i \in 1..s |-> <<>>]

\* the locals of Sign before its loop (lines 166-182): c, t, a = (ax, ay),
\* b = (bx, by), sum, id, and the reader with the error it gave
SignLocals(s, rd) ==
    [c |-> NilSlice(s), t |-> NilSlice(s), a |-> NilSlice(s), b |-> NilSlice(s),
     sum |-> 0, id |-> 1, rand |-> rd, err |-> FALSE]

RECURSIVE SignLoop(_, _, _, _, _)
RECURSIVE SignDrawC(_, _, _, _, _, _)
RECURSIVE SignDrawT(_, _, _, _, _, _, _)

\* lines 195-205: the commitments of the blinded index j from c_j = cj and
\* t_j = dt.k, and the next iteration
SignDrawT(j, lp, priv, R, H, cj, dt) ==
    IF dt.err THEN [lp EXCEPT !.err = TRUE, !.rand = dt.rest]
    ELSE SignLoop(j + 1,
                  [lp EXCEPT
                     !.c[j] = <<cj>>,
                     !.t[j] = <<dt.k>>,
                     !.a[j] = <<PointAdd(ScalarBaseMult(Bytes(dt.k)),
                                         ScalarMult(R[j].X, R[j].Y, Bytes(cj)))>>,
                     !.b[j] = <<ScalarMult(H[1], H[2],
                                           Bytes((priv.D * cj + dt.k) % N))>>,
                     !.sum  = lp.sum + cj,
                     !.rand = dt.rest],
                  priv, R, H)

\* lines 187-194: dc is the draw of c_j; then t_j is drawn
SignDrawC(j, lp, priv, R, H, dc) ==
    IF dc.err THEN [lp EXCEPT !.err = TRUE, !.rand = dc.rest]
    ELSE SignDrawT(j, lp, priv, R, H, dc.k, randFieldElement(dc.rest))

\* the loop of Sign over j (lines 183-207)
SignLoop(j, lp, priv, R, H) ==
    IF j > Len(R) THEN lp
    ELSE IF KeyEq(R[j], PublicKeyOf(priv))
    THEN SignLoop(j + 1, [lp EXCEPT !.id = j], priv, R, H)
    ELSE SignDrawC(j, lp, priv, R, H, randFieldElement(lp.rand))

\* the bytes of the commitments appended to mR (lines 220-225, 291-296)
RECURSIVE CommitBytes(_, _)
CommitBytes(a, b) ==
    IF a = <<>> THEN <<>>
    ELSE Bytes(a[1][1]) \o Bytes(a[1][2]) \o Bytes(b[1][1]) \o Bytes(b[1][2])
         \o CommitBytes(Tail(a), Tail(b))

Unwrap(sl) == [i \in 1..Len(sl) |-> sl[i][1]]

\* Sign ends without a signature: an error returned, or a panic
SignFail(status, rest, st2, lp) ==
    [status |-> status, rs |-> NilSig, rest |-> rest, store |-> st2,
     id |-> lp.id, h |-> 0, sum |-> lp.sum, a |-> <<>>, b |-> <<>>]

\* lines 229-240: c_id closes the sum, t_id answers it, the signature
SignClose(priv, st2, hs, lp, r, a, b, h, cid) ==
    [status |-> "ok",
     rs |-> [isNil |-> FALSE, Hsx |-> hs[1], Hsy |-> hs[2],
             C |-> Unwrap([lp.c EXCEPT ![lp.id] = <<cid>>]),
             T |-> Unwrap([lp.t EXCEPT ![lp.id] = <<(r.k - priv.D * cid) % N>>])],
     rest |-> r.rest, store |-> st2, id |-> lp.id, h |-> h, sum |-> lp.sum,
     a |-> a, b |-> b]

\* line 228: h over mRab
SignHash(priv, st2, hs, lp, r, a, b, h) ==
    SignClose(priv, st2, hs, lp, r, a, b, h, (h - lp.sum) % N)

\* lines 218-225: mRab from the commitments, a nil one ending in a panic
SignCommit(priv, mR, st2, hs, lp, r, a, b) ==
    IF \E i \in 1..Len(a) : a[i] = <<>> \/ b[i] = <<>>
    THEN SignFail("panic", r.rest, st2, lp)
    ELSE SignHash(priv, st2, hs, lp, r, Unwrap(a), Unwrap(b),
                  SetBytes(hashq(mR \o CommitBytes(Unwrap(a), Unwrap(b)))))

\* lines 209-216: r is the draw of r; its commitments go to index id,
\* which no slice has when the ring is empty
SignDrawR(priv, R, mR, st2, H, hs, lp, r) ==
    IF r.err THEN SignFail("err", r.rest, st2, lp)
    ELSE IF lp.id > Len(R) THEN SignFail("panic", r.rest, st2, lp)
    ELSE SignCommit(priv, mR, st2, hs, lp, r,
                    [lp.a EXCEPT ![lp.id] = <<ScalarBaseMult(Bytes(r.k))>>],
                    [lp.b EXCEPT ![lp.id] = <<ScalarMult(H[1], H[2], Bytes(r.k))>>])

\* after the loop
SignLooped(priv, R, mR, st2, H, hs, lp) ==
    IF lp.err THEN SignFail("err", lp.rand, st2, lp)
    ELSE SignDrawR(priv, R, mR, st2, H, hs, lp, randFieldElement(lp.rand))

\* lines 179-207: the tag hs = H^x, then the loop
SignTagged(rd, priv, R, mR, st2, H) ==
    SignLooped(priv, R, mR, st2, H, ScalarMult(H[1], H[2], Bytes(priv.D)),
               SignLoop(1, SignLocals(Len(R), rd), priv, R, H))

\* lines 177-178: mR, what append left in the caller's array, H = hashG(mR)
SignAppended(rd, priv, R, mR, st2) ==
    SignTagged(rd, priv, R, mR, st2, hashG(mR))

\* Sign(rand, priv, R, m) with m = st[0:ml]: what it returns or how it
\* ends, what it leaves of the reader and of the message's backing array
SignRun(rd, priv, R, st, ml) ==
    SignAppended(rd, priv, R, SubSeq(st, 1, ml) \o RingBytes(R),
                 AppendInto(st, ml, RingBytes(R)))

-----------------------------------------------------------------------------
(* Verify *)

\* the loop of Verify over j (lines 273-287)
RECURSIVE VerifyLoop(_, _, _, _, _)
VerifyLoop(j, lp, R, rs, H) ==
    IF j > Len(R) THEN lp
    ELSE IF j > Len(rs.C) THEN [lp EXCEPT !.status = "panic"]
    ELSE IF rs.C[j] >= N THEN [lp EXCEPT !.status = "false"]
    ELSE IF j > Len(rs.T) THEN [lp EXCEPT !.status = "panic"]
    ELSE IF rs.T[j] >= N THEN [lp EXCEPT !.status = "false"]
    ELSE VerifyLoop(j + 1,
                    [lp EXCEPT
                       !.a = Append(lp.a,
                                PointAdd(ScalarBaseMult(Bytes(rs.T[j])),
                                         ScalarMult(R[j].X, R[j].Y, Bytes(rs.C[j])))),
                       !.b = Append(lp.b,
                                PointAdd(ScalarMult(H[1], H[2], Bytes(rs.T[j])),
                                         ScalarMult(rs.Hsx, rs.Hsy, Bytes(rs.C[j])))),
                       !.sum = lp.sum + rs.C[j]],
                    R, rs, H)

VerifyResult(status, val, st2) == [status |-> status, val |-> val, store |-> st2]

\* lines 288-300: the hash over mRab against the sum of the c_j
VerifyLooped(mR, st2, lp) ==
    IF lp.status = "panic" THEN VerifyResult("panic", FALSE, st2)
    ELSE IF lp.status = "false" THEN VerifyResult("ok", FALSE, st2)
    ELSE VerifyResult("ok",
                      (lp.sum % N) = SetBytes(hashq(mR \o CommitBytes(lp.a, lp.b))) % N,
                      st2)

\* lines 265-287: mR, what append left in the caller's array, the loop
VerifyAppended(R, mR, st2, rs) ==
    VerifyLooped(mR, st2,
                 VerifyLoop(1, [status |-> "run", a |-> <<>>, b |-> <<>>, sum |-> 0],
                            R, rs, hashG(mR)))

\* Verify(R, m, rs) with m = st[0:ml]
VerifyRun(R, st, ml, rs) ==
    IF Len(R) = 0 THEN VerifyResult("ok", FALSE, st)
    ELSE IF rs.isNil THEN VerifyResult("panic", FALSE, st)       \* rs.Hsx, rs nil
    ELSE IF rs.Hsx = 0 \/ rs.Hsy = 0 THEN VerifyResult("ok", FALSE, st)
    ELSE IF rs.Hsx >= N \/ rs.Hsy >= N THEN VerifyResult("ok", FALSE, st)
    ELSE IF ~IsOnCurve(rs.Hsx, rs.Hsy) THEN VerifyResult("ok", FALSE, st)
    ELSE VerifyAppended(R, SubSeq(st, 1, ml) \o RingBytes(R),
                        AppendInto(st, ml, RingBytes(R)), rs)

-----------------------------------------------------------------------------
(* The calls *)

\* the integers a block of a reader decodes to
RawVals == {0, 1}

\* the readers a caller passes: up to n blocks, then end of stream
Readers(n) == UNION {[1..l -> RawVals] : l \in 0..n}

\* the message a caller signs besides the nil one: "Hello, world."
Messages == {<<72, 101, 108, 108, 111, 44, 32, 119, 111, 114, 108, 100, 46>>}

Zeros(n) == [i \in 1..n |-> 0]

NoRet == [op |-> "none", status |-> "ok", val |-> FALSE, key |-> 0,
          rand |-> <<>>, rest |-> <<>>, h |-> 0, id |-> 0,
          a |-> <<>>, b |-> <<>>]

\* the caller still builds keys, ring and message: no Sign call made yet
Setup == ret.op \notin {"Sign", "Tamper", "Verify"}

Init ==
    /\ keys = <<>>
    /\ ring = [Ring |-> <<>>, cap |-> 0]
    /\ store = <<>>
    /\ mlen = 0
    /\ sig = NilSig
    /\ signedBy = 0
    /\ ret = NoRet

\* GenerateKey(c, rand)
GenerateKey(rd) ==
    /\ Setup
    /\ Len(keys) < MaxKeys
    /\ LET d  == randFieldElement(rd)
           pt == ScalarBaseMult(Bytes(d.k))
       IN  IF d.err
           THEN /\ keys' = keys
                /\ ret' = [NoRet EXCEPT !.op = "GenerateKey", !.status = "err",
                                        !.rand = rd, !.rest = d.rest]
           ELSE /\ keys' = Append(keys, [ref |-> Len(keys) + 1, D |-> d.k,
                                         X |-> pt[1], Y |-> pt[2]])
                /\ ret' = [NoRet EXCEPT !.op = "GenerateKey", !.key = Len(keys) + 1,
                                        !.rand = rd, !.rest = d.rest]
    /\ UNCHANGED <<ring, store, mlen, sig, signedBy>>

\* NewPublicKeyRing(cap)
NewPublicKeyRing(cap) ==
    /\ Setup
    /\ ring' = [Ring |-> <<>>, cap |-> cap]
    /\ ret' = [NoRet EXCEPT !.op = "NewPublicKeyRing"]
    /\ UNCHANGED <<keys, store, mlen, sig, signedBy>>

\* r.Add(keys[i].PublicKey)
Add(i) ==
    /\ Setup
    /\ Len(ring.Ring) < MaxRing
    /\ ring' = AppendKey(ring, PublicKeyOf(keys[i]))
    /\ ret' = [NoRet EXCEPT !.op = "Add", !.key = i]
    /\ UNCHANGED <<keys, store, mlen, sig, signedBy>>

\* the caller points m at the first Len(content) bytes of a fresh buffer
SetMessage(content, spare) ==
    /\ Setup
    /\ store' = content \o Zeros(spare)
    /\ mlen' = Len(content)
    /\ ret' = [NoRet EXCEPT !.op = "SetMessage"]
    /\ UNCHANGED <<keys, ring, sig, signedBy>>

\* sig, err = Sign(rand, keys[i], ring, m), the message set just before
\* as TestSign does
Sign(i, rd) ==
    /\ ret.op = "SetMessage"
    /\ LET out == SignRun(rd, keys[i], ring.Ring, store, mlen)
       IN  /\ sig' = out.rs
           /\ signedBy' = IF out.status = "ok" THEN i ELSE 0
           /\ store' = out.store
           /\ ret' = [op |-> "Sign", status |-> out.status, val |-> FALSE,
                      key |-> i, rand |-> rd, rest |-> out.rest,
                      h |-> out.h, id |-> out.id, a |-> out.a, b |-> out.b]
    /\ UNCHANGED <<keys, ring, mlen>>

\* Verify(ring, m, sig), when Sign returned a signature as TestVerify
\* supposes
Verify ==
    /\ ret.op \in {"Sign", "Tamper"}
    /\ ~sig.isNil
    /\ LET out == VerifyRun(ring.Ring, store, mlen, sig)
       IN  /\ store' = out.store
           /\ ret' = [NoRet EXCEPT !.op = "Verify", !.status = out.status,
                                   !.val = out.val]
    /\ UNCHANGED <<keys, ring, mlen, sig, signedBy>>

\* values a forger puts in place of the scalar v
Forged(v) == {v + N, 0 - (v + N)}

\* the caller alters one field of the signature Sign returned
Tamper ==
    /\ signedBy # 0
    /\ \/ \E j \in 1..Len(sig.C) : \E v \in Forged(sig.C[j]) :
             sig' = [sig EXCEPT !.C[j] = v]
       \/ \E j \in 1..Len(sig.T) : \E v \in Forged(sig.T[j]) :
             sig' = [sig EXCEPT !.T[j] = v]
       \/ sig' = [sig EXCEPT !.Hsx = (sig.Hsx + 1) % P]
       \/ sig' = [sig EXCEPT !.Hsy = (sig.Hsy + 1) % P]
       \/ sig' = [sig EXCEPT !.C = SubSeq(sig.C, 1, Len(sig.C) - 1)]
       \/ sig' = [sig EXCEPT !.T = SubSeq(sig.T, 1, Len(sig.T) - 1)]
    /\ signedBy' = 0
    /\ ret' = [NoRet EXCEPT !.op = "Tamper"]
    /\ UNCHANGED <<keys, ring, store, mlen>>

Next ==
    \/ \E rd \in Readers(1) : GenerateKey(rd)
    \/ \E cap \in {0, MaxCap} : NewPublicKeyRing(cap)
    \/ \E i \in 1..Len(keys) : Add(i)
    \/ \E content \in Messages, spare \in {0, MaxSpare} : SetMessage(content, spare)
    \/ \E i \in 1..Len(keys), rd \in Readers(MaxDraws) : Sign(i, rd)
    \/ Verify

Spec == Init /\ [][Next]_vars

\* the calls, and a forger between Sign and Verify
NextForge == Next \/ Tamper

SpecForge == Init /\ [][NextForge]_vars

-----------------------------------------------------------------------------
(* Properties *)

RECURSIVE SumSeq(_)
SumSeq(q) == IF q = <<>> THEN 0 ELSE Head(q) + SumSeq(Tail(q))

\* the message m the caller passes
Message == SubSeq(store, 1, mlen)

\* the indices of the ring that hold the public key of priv
IndicesOf(priv, R) == {j \in 1..Len(R) : KeyEq(R[j], PublicKeyOf(priv))}

\* the scalar draws a Sign call by priv over R asks of its reader: c_j and
\* t_j for every index that is not the signer's, and r
DrawsNeeded(priv, R) == 2 * (Len(R) - Cardinality(IndicesOf(priv, R))) + 1

\* x . H_G(m || R.bytes()) as a multiple of the base point
TagOf(x, m, R) ==
    MulInt(<<Gx, Gy>>, (x * SetBytes(Sha256(m \o RingBytes(R)))) % N)

InRange(v) == v >= 0 /\ v < N

\* C1: a signature that Sign returned for a signer whose key is in the
\* ring is accepted by Verify over the same ring and message
C1_RoundTrip ==
    (ret.op = "Verify" /\ signedBy # 0 /\ IndicesOf(keys[signedBy], ring.Ring) # {})
        => (ret.status = "ok" /\ ret.val)

\* C2: the tag of every signature Sign returns is x . H_G(m || R.bytes()),
\* a function of the private scalar, the message and the ring that does
\* not mention the reader, so that calls that differ only in the reader
\* return the same tag
C2_UniqueTag ==
    (ret.op = "Sign" /\ ret.status = "ok")
        => <<sig.Hsx, sig.Hsy>> = TagOf(keys[ret.key].D, Message, ring.Ring)

C2_Witness ==
    /\ ret.op = "Sign" /\ ret.status = "ok"
    /\ Len(ring.Ring) = 2
    /\ ret.rand = <<1, 0, 1>>
    /\ <<sig.Hsx, sig.Hsy>> # Infinity

\* C3: Sign returns an error and no signature when the signer's public key
\* is not in the ring, the empty ring included
C3_SignRejectsOutsider ==
    (ret.op = "Sign" /\ IndicesOf(keys[ret.key], ring.Ring) = {})
        => (ret.status = "err" /\ sig.isNil)

\* C4: Verify returns false for a signature with some c_j or t_j outside
\* [0, N) or with a tag that is not on the curve
C4_VerifyRejectsOutOfRange ==
    (/\ ret.op = "Verify"
     /\ ~sig.isNil
     /\ \/ \E j \in 1..Len(sig.C) : ~InRange(sig.C[j])
        \/ \E j \in 1..Len(sig.T) : ~InRange(sig.T[j])
        \/ ~IsOnCurve(sig.Hsx, sig.Hsy))
        => (ret.status = "ok" /\ ~ret.val)

\* C5: Verify returns a boolean for every ring and signature, false when C
\* or T has fewer entries than the ring has keys, and never panics
C5_VerifyTotal ==
    (ret.op = "Verify" /\ ~sig.isNil)
        => /\ ret.status = "ok"
           /\ (Len(sig.C) < RingLen(ring) \/ Len(sig.T) < RingLen(ring)) => ~ret.val

\* C6: Sign and Verify leave the ring, the keys, the message slice and its
\* backing array as they were, and Verify leaves the signature as it was
C6_Frame ==
    [][(ret'.op \in {"Sign", "Verify"})
          => /\ store' = store /\ mlen' = mlen
             /\ ring' = ring /\ keys' = keys
             /\ (ret'.op = "Verify" => sig' = sig)]_vars

\* C7: a GenerateKey or Sign call whose reader runs out at one of its
\* scalar draws returns the error, no key and no signature, and has read
\* nothing past that draw
C7_ShortReadAborts ==
    [][/\ (ret'.op = "GenerateKey" /\ ret'.rand = <<>>)
            => (ret'.status = "err" /\ keys' = keys)
       /\ (ret'.op = "Sign" /\ Len(ret'.rand) < DrawsNeeded(keys[ret'.key], ring.Ring))
            => (ret'.status = "err" /\ sig'.isNil /\ signedBy' = 0
                /\ ret'.rest = <<>>)]_vars

C7_Witness ==
    /\ ret.op = "Sign" /\ ret.status = "err"
    /\ Len(ring.Ring) = 2
    /\ Len(ret.rand) = 2
    /\ IndicesOf(keys[ret.key], ring.Ring) # {}

\* C8: NewPublicKeyRing gives an empty ring for every capacity, and every
\* Add puts its key behind the keys already there, whatever the capacity
C8_RingAppends ==
    [][/\ (ret'.op = "NewPublicKeyRing") => (RingLen(ring') = 0)
       /\ (ret'.op = "Add")
            => /\ RingLen(ring') = RingLen(ring) + 1
               /\ ring'.Ring = Append(ring.Ring, PublicKeyOf(keys[ret'.key]))]_vars

C8_Witness ==
    /\ ret.op = "Add"
    /\ RingLen(ring) = 2
    /\ ring.cap = 2

\* C9: with the signer's key at more than one index, Sign signs at the
\* first of them, blinds every other index and returns a signature with
\* all entries of C and T set
C9_DuplicateSigner ==
    (/\ ret.op = "Sign"
     /\ Cardinality(IndicesOf(keys[ret.key], ring.Ring)) > 1
     /\ Len(ret.rand) >= 2 * (RingLen(ring) - 1) + 1)
        => /\ ret.status = "ok"
           /\ \A j \in IndicesOf(keys[ret.key], ring.Ring) : ret.id <= j
           /\ Len(sig.C) = RingLen(ring)
           /\ Len(sig.T) = RingLen(ring)

\* C10: a signature Sign returns has as many c_j and t_j as the ring has
\* keys, all in [0, N), and the c_j sum to the hash h that Sign computed
\* over its commitments, modulo N
C10_SignInvariant ==
    (ret.op = "Sign" /\ ret.status = "ok")
        => /\ Len(sig.C) = RingLen(ring) /\ Len(sig.T) = RingLen(ring)
           /\ \A j \in 1..Len(sig.C) : InRange(sig.C[j])
           /\ \A j \in 1..Len(sig.T) : InRange(sig.T[j])
           /\ ret.h = SetBytes(hashq(Message \o RingBytes(ring.Ring)
                                     \o CommitBytes(ret.a, ret.b)))
           /\ SumSeq(sig.C) % N = ret.h % N

====
